---- MODULE Spec2Model ----
(***************************************************************************)
(* Model of the Payvia Soroban contract (contracts/payvia/src/lib.rs).     *)
(*                                                                         *)
(* The contract keeps four slots in instance storage: "admin", "users",    *)
(* "bills" and "withdrawals".  Every entry point reads whole maps, changes *)
(* a copy and writes the copy back.  The host runs one invocation at a     *)
(* time; an invocation that returns Err has written nothing (every Err is  *)
(* returned before the first storage write) and one that panics is rolled  *)
(* back by the host.  A step of the model is one whole invocation.  An     *)
(* invocation that writes nothing (a read, an Err, a panic) leaves every   *)
(* variable as it was; what it returns is the res field of its _call       *)
(* operator on the current state.                                          *)
(*                                                                         *)
(* Balances are i128 and the timestamp is u64 in the source.  The amounts  *)
(* and the number of state-changing steps are bounded below, so every      *)
(* balance stays within 2 * MaxSteps of zero and the timestamp below       *)
(* MaxSteps + 1, far inside those ranges: the arithmetic of the model is   *)
(* the arithmetic of the source on these runs.                             *)
(***************************************************************************)
EXTENDS Integers, Sequences, FiniteSets, TLC

VARIABLES
    admin,        \* instance storage slot "admin": NoAdmin before init
    users,        \* instance storage slot "users": Map<Address, User>
    bills,        \* instance storage slot "bills": Map<String, BillPayment>
    withdrawals,  \* instance storage slot "withdrawals": Map<String, Withdrawal>
    now,          \* env.ledger().timestamp()
    op,           \* the last invocation that wrote to storage: entry point,
                  \* arguments, ledger timestamp and returned value
    net,          \* history: per address, deposits + received - sent - bill debits - withdrawal debits
    steps       \* history: number of steps that changed the state

vars == <<admin, users, bills, withdrawals, now, op, net, steps>>

store == <<admin, users, bills, withdrawals>>

(***************************************************************************)
(* Bounds of the model.                                                    *)
(***************************************************************************)
MaxSteps == 4

(***************************************************************************)
(* Input domains.                                                          *)
(***************************************************************************)
ContractAddress == "C"
Address == {"U", "V"}
Callers == {ContractAddress, "V"}
Phones == {"555-0100", "555-0199"}
BillTypes == {"electricity", "water"}
Methods == {"mobile_money"}
AccountNumbers == {"ACC123"}
Amounts == {0 - 1, 1, 2}
UgxAmounts == {0, 3700}
Statuses == {"pending", "paid"}
Times == 0 .. MaxSteps

NoAdmin == "none"
Unit == "()"

Ok(v) == [tag |-> "Ok", val |-> v]
Err(m) == [tag |-> "Err", msg |-> m]
Panic == [tag |-> "Panic"]

\* Map::set(k, v)
MapSet(m, k, v) == [x \in (DOMAIN m) \cup {k} |-> IF x = k THEN v ELSE m[x]]

EmptyMap == [x \in {} |-> 0]

\* format!("bill_{}", timestamp) and format!("withdraw_{}", timestamp)
BillId(t) == "bill_" \o ToString(t)
WithdrawalId(t) == "withdraw_" \o ToString(t)

BillIds == {BillId(t) : t \in Times}
WithdrawalIds == {WithdrawalId(t) : t \in Times}

(***************************************************************************)
(* The entry points as functions of the storage they read.  Each returns   *)
(* the maps it leaves in storage and the value it returns to the caller.   *)
(***************************************************************************)

\* register_user without the contains_key check: a second registration
\* replaces the stored record.
register_user_overwrites(us, user_address, phone) ==
    LET user == [address |-> user_address,
                 phone |-> phone,
                 is_verified |-> FALSE,
                 balance |-> 0]
    IN [users |-> MapSet(us, user_address, user), res |-> Ok(Unit)]

\* register_user: Err before any write when the key exists, else a fresh User.
register_user_call(us, user_address, phone) ==
    IF user_address \in DOMAIN us
    THEN [users |-> us, res |-> Err("User already exists")]
    ELSE LET user == [address |-> user_address,
                      phone |-> phone,
                      is_verified |-> FALSE,
                      balance |-> 0]
         IN [users |-> MapSet(us, user_address, user), res |-> Ok(Unit)]

\* get_user: read-only lookup.
get_user_call(us, user_address) ==
    IF user_address \in DOMAIN us
    THEN Ok(us[user_address])
    ELSE Err("User not found")

\* verify_user that flips the flag instead of setting it.
verify_user_toggles(us, user_address) ==
    IF user_address \notin DOMAIN us
    THEN [users |-> us, res |-> Err("User not found")]
    ELSE LET user == [us[user_address] EXCEPT !.is_verified = ~@]
         IN [users |-> MapSet(us, user_address, user), res |-> Ok(Unit)]

\* verify_user: sets is_verified on a copy of the record and stores it.
verify_user_call(us, user_address) ==
    IF user_address \notin DOMAIN us
    THEN [users |-> us, res |-> Err("User not found")]
    ELSE LET user == [us[user_address] EXCEPT !.is_verified = TRUE]
         IN [users |-> MapSet(us, user_address, user), res |-> Ok(Unit)]

\* deposit: user.balance += amount, with no check on the sign of amount.
deposit_call(us, user_address, amount) ==
    IF user_address \notin DOMAIN us
    THEN [users |-> us, res |-> Err("User not found")]
    ELSE LET user == [us[user_address] EXCEPT !.balance = @ + amount]
         IN [users |-> MapSet(us, user_address, user), res |-> Ok(Unit)]

\* get_balance: read-only lookup.
get_balance_call(us, user_address) ==
    IF user_address \in DOMAIN us
    THEN Ok(us[user_address].balance)
    ELSE Err("User not found")

\* send_usdc without the balance check.
send_usdc_unchecked(us, from_address, to_address, amount) ==
    IF from_address \notin DOMAIN us
    THEN [users |-> us, res |-> Err("Sender not found")]
    ELSE IF to_address \notin DOMAIN us
    THEN [users |-> us, res |-> Err("Recipient not found")]
    ELSE LET from_user2 == [us[from_address] EXCEPT !.balance = @ - amount]
             to_user2 == [us[to_address] EXCEPT !.balance = @ + amount]
             users1 == MapSet(us, from_address, from_user2)
             users2 == MapSet(users1, to_address, to_user2)
         IN [users |-> users2, res |-> Ok(Unit)]

\* send_usdc that writes the sender back and forgets the recipient.
send_usdc_sender_only(us, from_address, to_address, amount) ==
    IF from_address \notin DOMAIN us
    THEN [users |-> us, res |-> Err("Sender not found")]
    ELSE IF to_address \notin DOMAIN us
    THEN [users |-> us, res |-> Err("Recipient not found")]
    ELSE IF us[from_address].balance < amount
    THEN [users |-> us, res |-> Err("Insufficient balance")]
    ELSE LET from_user2 == [us[from_address] EXCEPT !.balance = @ - amount]
         IN [users |-> MapSet(us, from_address, from_user2), res |-> Ok(Unit)]

\* send_usdc: both records are copied out of the map before either is
\* changed, then written back sender first, recipient second.
send_usdc_call(us, from_address, to_address, amount) ==
    IF from_address \notin DOMAIN us
    THEN [users |-> us, res |-> Err("Sender not found")]
    ELSE IF to_address \notin DOMAIN us
    THEN [users |-> us, res |-> Err("Recipient not found")]
    ELSE LET from_user == us[from_address]
             to_user == us[to_address]
         IN IF from_user.balance < amount
            THEN [users |-> us, res |-> Err("Insufficient balance")]
            ELSE LET from_user2 == [from_user EXCEPT !.balance = @ - amount]
                     to_user2 == [to_user EXCEPT !.balance = @ + amount]
                     users1 == MapSet(us, from_address, from_user2)
                     users2 == MapSet(users1, to_address, to_user2)
                 IN [users |-> users2, res |-> Ok(Unit)]

\* pay_bill that stores the balance left after the debit as the amount.
pay_bill_stores_balance(us, bs, t, user_address, bill_type, account_number, amount) ==
    IF user_address \notin DOMAIN us
    THEN [users |-> us, bills |-> bs, res |-> Err("User not found")]
    ELSE IF us[user_address].balance < amount
    THEN [users |-> us, bills |-> bs, res |-> Err("Insufficient balance")]
    ELSE LET user == [us[user_address] EXCEPT !.balance = @ - amount]
             payment_id == BillId(t)
             bill_payment == [id |-> payment_id,
                              user_address |-> user_address,
                              bill_type |-> bill_type,
                              account_number |-> account_number,
                              amount |-> user.balance,
                              status |-> "pending",
                              timestamp |-> t]
         IN [users |-> MapSet(us, user_address, user),
             bills |-> MapSet(bs, payment_id, bill_payment),
             res |-> Ok(payment_id)]

\* pay_bill that debits and stores the account before it checks the balance.
pay_bill_debits_first(us, bs, t, user_address, bill_type, account_number, amount) ==
    IF user_address \notin DOMAIN us
    THEN [users |-> us, bills |-> bs, res |-> Err("User not found")]
    ELSE LET user == [us[user_address] EXCEPT !.balance = @ - amount]
             debited == MapSet(us, user_address, user)
             payment_id == BillId(t)
             bill_payment == [id |-> payment_id,
                              user_address |-> user_address,
                              bill_type |-> bill_type,
                              account_number |-> account_number,
                              amount |-> amount,
                              status |-> "pending",
                              timestamp |-> t]
         IN IF user.balance < 0
            THEN [users |-> debited, bills |-> bs, res |-> Err("Insufficient balance")]
            ELSE [users |-> debited,
                  bills |-> MapSet(bs, payment_id, bill_payment),
                  res |-> Ok(payment_id)]

\* pay_bill: debit, then a BillPayment stored under "bill_<timestamp>".
pay_bill_call(us, bs, t, user_address, bill_type, account_number, amount) ==
    IF user_address \notin DOMAIN us
    THEN [users |-> us, bills |-> bs, res |-> Err("User not found")]
    ELSE IF us[user_address].balance < amount
    THEN [users |-> us, bills |-> bs, res |-> Err("Insufficient balance")]
    ELSE LET user == [us[user_address] EXCEPT !.balance = @ - amount]
             payment_id == BillId(t)
             bill_payment == [id |-> payment_id,
                              user_address |-> user_address,
                              bill_type |-> bill_type,
                              account_number |-> account_number,
                              amount |-> amount,
                              status |-> "pending",
                              timestamp |-> t]
         IN [users |-> MapSet(us, user_address, user),
             bills |-> MapSet(bs, payment_id, bill_payment),
             res |-> Ok(payment_id)]

\* withdraw that checks and debits ugx_amount where usdc_amount is meant.
withdraw_debits_ugx(us, ws, t, user_address, method, account_number, usdc_amount, ugx_amount) ==
    IF user_address \notin DOMAIN us
    THEN [users |-> us, withdrawals |-> ws, res |-> Err("User not found")]
    ELSE IF us[user_address].balance < ugx_amount
    THEN [users |-> us, withdrawals |-> ws, res |-> Err("Insufficient balance")]
    ELSE LET user == [us[user_address] EXCEPT !.balance = @ - ugx_amount]
             withdrawal_id == WithdrawalId(t)
             withdrawal == [id |-> withdrawal_id,
                            user_address |-> user_address,
                            method |-> method,
                            account_number |-> account_number,
                            usdc_amount |-> usdc_amount,
                            ugx_amount |-> ugx_amount,
                            status |-> "pending",
                            timestamp |-> t]
         IN [users |-> MapSet(us, user_address, user),
             withdrawals |-> MapSet(ws, withdrawal_id, withdrawal),
             res |-> Ok(withdrawal_id)]

\* withdraw: debit of usdc_amount, then a Withdrawal stored under
\* "withdraw_<timestamp>"; ugx_amount is stored as given.
withdraw_call(us, ws, t, user_address, method, account_number, usdc_amount, ugx_amount) ==
    IF user_address \notin DOMAIN us
    THEN [users |-> us, withdrawals |-> ws, res |-> Err("User not found")]
    ELSE IF us[user_address].balance < usdc_amount
    THEN [users |-> us, withdrawals |-> ws, res |-> Err("Insufficient balance")]
    ELSE LET user == [us[user_address] EXCEPT !.balance = @ - usdc_amount]
             withdrawal_id == WithdrawalId(t)
             withdrawal == [id |-> withdrawal_id,
                            user_address |-> user_address,
                            method |-> method,
                            account_number |-> account_number,
                            usdc_amount |-> usdc_amount,
                            ugx_amount |-> ugx_amount,
                            status |-> "pending",
                            timestamp |-> t]
         IN [users |-> MapSet(us, user_address, user),
             withdrawals |-> MapSet(ws, withdrawal_id, withdrawal),
             res |-> Ok(withdrawal_id)]

\* The keys a request map can hold, in the map's iteration order (Map
\* iterates in key order; the timestamps of the model have one digit, so
\* key order is timestamp order).
BillKeys == [i \in 1 .. (MaxSteps + 1) |-> BillId(i - 1)]
WithdrawalKeys == [i \in 1 .. (MaxSteps + 1) |-> WithdrawalId(i - 1)]

\* get_bill_payments without the comparison of the owner.
get_bill_payments_unfiltered(bs, user_address) ==
    LET Stored(k) == k \in DOMAIN bs
        keys == SelectSeq(BillKeys, Stored)
    IN [i \in 1 .. Len(keys) |-> bs[keys[i]]]

\* get_bill_payments: the records of the map owned by user_address.
get_bill_payments_call(bs, user_address) ==
    LET Mine(k) == k \in DOMAIN bs /\ bs[k].user_address = user_address
        keys == SelectSeq(BillKeys, Mine)
    IN [i \in 1 .. Len(keys) |-> bs[keys[i]]]

\* get_withdrawals: the records of the map owned by user_address.
get_withdrawals_call(ws, user_address) ==
    LET Mine(k) == k \in DOMAIN ws /\ ws[k].user_address = user_address
        keys == SelectSeq(WithdrawalKeys, Mine)
    IN [i \in 1 .. Len(keys) |-> ws[keys[i]]]

\* update_bill_status that clears the amount of the payment it updates.
update_bill_status_clears_amount(adm, bs, payment_id, status) ==
    IF adm = NoAdmin
    THEN [bills |-> bs, res |-> Panic]
    ELSE IF ContractAddress # adm
    THEN [bills |-> bs, res |-> Err("Unauthorized")]
    ELSE IF payment_id \notin DOMAIN bs
    THEN [bills |-> bs, res |-> Err("Payment not found")]
    ELSE LET payment == [bs[payment_id] EXCEPT !.status = status, !.amount = 0]
         IN [bills |-> MapSet(bs, payment_id, payment), res |-> Ok(Unit)]

\* update_bill_status that only lets a pending payment change status.
update_bill_status_pending_only(adm, bs, payment_id, status) ==
    IF adm = NoAdmin
    THEN [bills |-> bs, res |-> Panic]
    ELSE IF ContractAddress # adm
    THEN [bills |-> bs, res |-> Err("Unauthorized")]
    ELSE IF payment_id \notin DOMAIN bs
    THEN [bills |-> bs, res |-> Err("Payment not found")]
    ELSE IF bs[payment_id].status # "pending"
    THEN [bills |-> bs, res |-> Err("Payment not pending")]
    ELSE LET payment == [bs[payment_id] EXCEPT !.status = status]
         IN [bills |-> MapSet(bs, payment_id, payment), res |-> Ok(Unit)]

\* update_bill_status: unwrap of the admin slot, comparison of the
\* contract's own address with it, then the status is overwritten.  The
\* invoker is not an argument and is never read.
update_bill_status_call(adm, bs, payment_id, status) ==
    IF adm = NoAdmin
    THEN [bills |-> bs, res |-> Panic]
    ELSE IF ContractAddress # adm
    THEN [bills |-> bs, res |-> Err("Unauthorized")]
    ELSE IF payment_id \notin DOMAIN bs
    THEN [bills |-> bs, res |-> Err("Payment not found")]
    ELSE LET payment == [bs[payment_id] EXCEPT !.status = status]
         IN [bills |-> MapSet(bs, payment_id, payment), res |-> Ok(Unit)]

\* update_withdrawal_status: as update_bill_status, on the withdrawals map.
update_withdrawal_status_call(adm, ws, withdrawal_id, status) ==
    IF adm = NoAdmin
    THEN [withdrawals |-> ws, res |-> Panic]
    ELSE IF ContractAddress # adm
    THEN [withdrawals |-> ws, res |-> Err("Unauthorized")]
    ELSE IF withdrawal_id \notin DOMAIN ws
    THEN [withdrawals |-> ws, res |-> Err("Withdrawal not found")]
    ELSE LET withdrawal == [ws[withdrawal_id] EXCEPT !.status = status]
         IN [withdrawals |-> MapSet(ws, withdrawal_id, withdrawal), res |-> Ok(Unit)]

(***************************************************************************)
(* The state machine: one action per entry point, plus the ledger clock.   *)
(***************************************************************************)
Init ==
    /\ admin = NoAdmin
    /\ users = EmptyMap
    /\ bills = EmptyMap
    /\ withdrawals = EmptyMap
    /\ now = 0
    /\ op = [name |-> "none"]
    /\ net = [a \in Address |-> 0]
    /\ steps = 0

\* The end of an invocation of a writing entry point.  One that returned Ok
\* has written storage: it is recorded in op and uses one unit of the step
\* budget.  One that returned Err or panicked has written nothing.
Returns(call, res) ==
    IF res.tag = "Ok"
    THEN /\ steps < MaxSteps
         /\ steps' = steps + 1
         /\ op' = [name |-> call.name, args |-> call, at |-> now, res |-> res]
    ELSE UNCHANGED <<op, steps>>

\* init that stores the address of whoever invokes it.
init_stores_invoker ==
    /\ admin' \in Callers
    /\ op' = [name |-> "init", args |-> [name |-> "init"], at |-> now, res |-> Ok(Unit)]
    /\ UNCHANGED <<users, bills, withdrawals, now, net, steps>>

\* init stores the same address whenever it runs, so it needs no budget.
init ==
    /\ admin' = ContractAddress
    /\ op' = [name |-> "init", args |-> [name |-> "init"], at |-> now, res |-> Ok(Unit)]
    /\ UNCHANGED <<users, bills, withdrawals, now, net, steps>>

register_user(user_address, phone) ==
    LET o == register_user_call(users, user_address, phone)
    IN /\ users' = o.users
       /\ UNCHANGED <<admin, bills, withdrawals, now, net>>
       /\ Returns([name |-> "register_user", user_address |-> user_address,
                   phone |-> phone], o.res)

get_user(user_address) ==
    /\ get_user_call(users, user_address).tag \in {"Ok", "Err"}
    /\ UNCHANGED vars

verify_user(user_address) ==
    LET o == verify_user_call(users, user_address)
    IN /\ users' = o.users
       /\ UNCHANGED <<admin, bills, withdrawals, now, net>>
       /\ Returns([name |-> "verify_user", user_address |-> user_address], o.res)

deposit(user_address, amount) ==
    LET o == deposit_call(users, user_address, amount)
    IN /\ users' = o.users
       /\ net' = IF o.res.tag = "Ok"
                 THEN [net EXCEPT ![user_address] = @ + amount]
                 ELSE net
       /\ UNCHANGED <<admin, bills, withdrawals, now>>
       /\ Returns([name |-> "deposit", user_address |-> user_address,
                   amount |-> amount], o.res)

get_balance(user_address) ==
    /\ get_balance_call(users, user_address).tag \in {"Ok", "Err"}
    /\ UNCHANGED vars

send_usdc(from_address, to_address, amount) ==
    LET o == send_usdc_call(users, from_address, to_address, amount)
        sent == [net EXCEPT ![from_address] = @ - amount]
    IN /\ users' = o.users
       /\ net' = IF o.res.tag = "Ok"
                 THEN [sent EXCEPT ![to_address] = @ + amount]
                 ELSE net
       /\ UNCHANGED <<admin, bills, withdrawals, now>>
       /\ Returns([name |-> "send_usdc", from_address |-> from_address,
                   to_address |-> to_address, amount |-> amount], o.res)

pay_bill(user_address, bill_type, account_number, amount) ==
    LET o == pay_bill_call(users, bills, now, user_address, bill_type,
                           account_number, amount)
    IN /\ users' = o.users
       /\ bills' = o.bills
       /\ net' = IF o.res.tag = "Ok"
                 THEN [net EXCEPT ![user_address] = @ - amount]
                 ELSE net
       /\ UNCHANGED <<admin, withdrawals, now>>
       /\ Returns([name |-> "pay_bill", user_address |-> user_address,
                   bill_type |-> bill_type, account_number |-> account_number,
                   amount |-> amount], o.res)

withdraw(user_address, method, account_number, usdc_amount, ugx_amount) ==
    LET o == withdraw_call(users, withdrawals, now, user_address, method,
                           account_number, usdc_amount, ugx_amount)
    IN /\ users' = o.users
       /\ withdrawals' = o.withdrawals
       /\ net' = IF o.res.tag = "Ok"
                 THEN [net EXCEPT ![user_address] = @ - usdc_amount]
                 ELSE net
       /\ UNCHANGED <<admin, bills, now>>
       /\ Returns([name |-> "withdraw", user_address |-> user_address,
                   method |-> method, account_number |-> account_number,
                   usdc_amount |-> usdc_amount, ugx_amount |-> ugx_amount], o.res)

get_bill_payments(user_address) ==
    /\ Len(get_bill_payments_call(bills, user_address)) <= Cardinality(DOMAIN bills)
    /\ UNCHANGED vars

get_withdrawals(user_address) ==
    /\ Len(get_withdrawals_call(withdrawals, user_address)) <= Cardinality(DOMAIN withdrawals)
    /\ UNCHANGED vars

\* caller is the identity that invokes the entry point.  The source takes
\* no caller argument and asks for no authorization, so it is recorded and
\* has no other part in the step.
update_bill_status(caller, payment_id, status) ==
    LET o == update_bill_status_call(admin, bills, payment_id, status)
    IN /\ bills' = o.bills
       /\ UNCHANGED <<admin, users, withdrawals, now, net>>
       /\ Returns([name |-> "update_bill_status", caller |-> caller,
                   payment_id |-> payment_id, status |-> status], o.res)

update_withdrawal_status(caller, withdrawal_id, status) ==
    LET o == update_withdrawal_status_call(admin, withdrawals, withdrawal_id, status)
    IN /\ withdrawals' = o.withdrawals
       /\ UNCHANGED <<admin, users, bills, now, net>>
       /\ Returns([name |-> "update_withdrawal_status", caller |-> caller,
                   withdrawal_id |-> withdrawal_id, status |-> status], o.res)

\* The ledger closes: the timestamp the next invocations see moves on.  It
\* never moves back.  A tick uses one unit of the step budget.
Tick ==
    /\ steps < MaxSteps
    /\ now' = now + 1
    /\ steps' = steps + 1
    /\ UNCHANGED <<admin, users, bills, withdrawals, op, net>>

Next ==
    \/ init
    \/ \E a \in Address, p \in Phones : register_user(a, p)
    \/ \E a \in Address : get_user(a)
    \/ \E a \in Address : verify_user(a)
    \/ \E a \in Address, m \in Amounts : deposit(a, m)
    \/ \E a \in Address : get_balance(a)
    \/ \E a \in Address, b \in Address, m \in Amounts : send_usdc(a, b, m)
    \/ \E a \in Address, bt \in BillTypes, n \in AccountNumbers, m \in Amounts :
          pay_bill(a, bt, n, m)
    \/ \E a \in Address, me \in Methods, n \in AccountNumbers, m \in Amounts,
          g \in UgxAmounts : withdraw(a, me, n, m, g)
    \/ \E a \in Address : get_bill_payments(a)
    \/ \E a \in Address : get_withdrawals(a)
    \/ \E c \in Callers, id \in BillIds, s \in Statuses :
          update_bill_status(c, id, s)
    \/ \E c \in Callers, id \in WithdrawalIds, s \in Statuses :
          update_withdrawal_status(c, id, s)
    \/ Tick

Spec == Init /\ [][Next]_vars

(***************************************************************************)
(* Claims.  The spec's error names are the source's messages:              *)
(* DuplicateAccount is "User already exists", InsufficientBalance is       *)
(* "Insufficient balance", NotFound is "User not found" and its kin.       *)
(* register is register_user, transfer is send_usdc, create_payment is     *)
(* pay_bill, create_withdrawal is withdraw, list_payments is               *)
(* get_bill_payments, update_payment_status is update_bill_status.         *)
(***************************************************************************)
Registered == DOMAIN users

Balances(us) == [a \in DOMAIN us |-> us[a].balance]

\* C1: in every reachable state every account's balance is >= 0.
\* (Stated as the claim states it; the source does not keep it.)
C1_BalanceNeverNegative ==
    \A a \in Registered : users[a].balance >= 0

\* C2: in every reachable state every account's balance equals its deposits
\* plus the transfers it received minus the transfers it sent, its bill
\* debits and its withdrawal debits, a transfer from A to A counting once as
\* sent and once as received.  (Stated as the claim states it; the source
\* does not keep it.)
C2_BalanceIsLedgerSum ==
    \A a \in Registered : users[a].balance = net[a]

\* C3: for every registered A and every amount with balance(A) >= amount,
\* send_usdc(A, A, amount) returns Ok and leaves the whole account map as it
\* was.  (Stated as the claim states it; the source does not keep it.)
C3_SelfTransferNetZero ==
    \A a \in Registered, m \in Amounts :
        users[a].balance >= m =>
            LET o == send_usdc_call(users, a, a, m)
            IN /\ o.res = Ok(Unit)
               /\ Balances(o.users) = Balances(users)

\* C4: for all registered A and B and every amount with balance(A) < amount,
\* send_usdc(A, B, amount) returns Err("Insufficient balance") and leaves
\* the account map, so the balances of A and B, as it was.
C4_InsufficientTransferRejected ==
    \A a \in Registered, b \in Registered, m \in Amounts :
        users[a].balance < m =>
            LET o == send_usdc_call(users, a, b, m)
            IN /\ o.res = Err("Insufficient balance")
               /\ o.users = users

\* C4 witness: a transfer has moved funds to an account, and a transfer out
\* of the sender it emptied is rejected for lack of balance.
C4_Witness ==
    /\ op.name = "send_usdc"
    /\ op.args.from_address # op.args.to_address
    /\ users[op.args.to_address].balance > 0
    /\ \E m \in Amounts :
          /\ users[op.args.from_address].balance < m
          /\ send_usdc_call(users, op.args.from_address, op.args.to_address, m).res
                = Err("Insufficient balance")

\* C5: for all distinct registered A and B and every amount with
\* balance(A) >= amount, send_usdc(A, B, amount) returns Ok and the account
\* map it stores is the old one with A's balance less amount and B's balance
\* plus amount, nothing else changed.
C5_TransferMovesBoth ==
    \A a \in Registered, b \in Registered, m \in Amounts :
        (a # b /\ users[a].balance >= m) =>
            LET o == send_usdc_call(users, a, b, m)
            IN /\ o.res = Ok(Unit)
               /\ DOMAIN o.users = DOMAIN users
               /\ o.users[a] = [users[a] EXCEPT !.balance = users[a].balance - m]
               /\ o.users[b] = [users[b] EXCEPT !.balance = users[b].balance + m]
               /\ \A c \in Registered \ {a, b} : o.users[c] = users[c]

\* C5 witness: a transfer of a sender's whole positive balance to another
\* account has run: the sender holds 0, the recipient holds the amount.
C5_Witness ==
    /\ op.name = "send_usdc"
    /\ op.args.from_address # op.args.to_address
    /\ op.args.amount > 0
    /\ users[op.args.from_address].balance = 0
    /\ users[op.args.to_address].balance = op.args.amount

\* C6: when pay_bill(U, category, account_number, amount) returns Ok for a
\* registered U with balance(U) >= amount, U's balance is amount less, the
\* returned id is "bill_" followed by the timestamp, and get_bill_payments(U)
\* on the stored map holds a record with that id, owner U, the category, the
\* account number, the amount and status "pending".
C6_PaymentCreated ==
    \A a \in Registered, bt \in BillTypes, n \in AccountNumbers, m \in Amounts :
        LET o == pay_bill_call(users, bills, now, a, bt, n, m)
            listed == get_bill_payments_call(o.bills, a)
        IN (users[a].balance >= m /\ o.res.tag = "Ok") =>
              /\ o.users[a].balance = users[a].balance - m
              /\ o.res.val = "bill_" \o ToString(now)
              /\ \E i \in 1 .. Len(listed) :
                    /\ listed[i].id = o.res.val
                    /\ listed[i].user_address = a
                    /\ listed[i].bill_type = bt
                    /\ listed[i].account_number = n
                    /\ listed[i].amount = m
                    /\ listed[i].status = "pending"

\* C6 witness: a payment of a positive amount has run and left a positive
\* balance; its record is listed for its owner, pending, under the id returned.
C6_Witness ==
    /\ op.name = "pay_bill"
    /\ op.args.amount > 0
    /\ users[op.args.user_address].balance > 0
    /\ op.res.val \in DOMAIN bills
    /\ \E i \in 1 .. Len(get_bill_payments_call(bills, op.args.user_address)) :
          LET r == get_bill_payments_call(bills, op.args.user_address)[i]
          IN r.id = op.res.val /\ r.status = "pending" /\ r.amount = op.args.amount

C8_OnlyAdminUpdates ==
    (admin # NoAdmin /\ op.name \in {"update_bill_status", "update_withdrawal_status"})
        => op.args.caller = admin

\* C9: after init, for every stored payment id and every status s, whatever
\* the status stored, update_bill_status(id, s) called by the administrator
\* returns Ok and get_bill_payments(owner) on the stored map lists that
\* payment with status s.
C9_AdminUpdateVisible ==
    admin # NoAdmin =>
        \A id \in DOMAIN bills, s \in Statuses :
            LET o == update_bill_status_call(admin, bills, id, s)
                listed == get_bill_payments_call(o.bills, bills[id].user_address)
            IN /\ o.res = Ok(Unit)
               /\ \E i \in 1 .. Len(listed) : listed[i].id = id
               /\ \A i \in 1 .. Len(listed) :
                     listed[i].id = id => listed[i].status = s

\* C9 witness: the administrator has set a payment's status to "paid", and
\* a further update of that payment, no longer pending, returns Ok.
C9_Witness ==
    /\ op.name = "update_bill_status"
    /\ op.args.caller = admin
    /\ op.args.status = "paid"
    /\ bills[op.args.payment_id].status = "paid"
    /\ update_bill_status_call(admin, bills, op.args.payment_id, "pending").res = Ok(Unit)

\* C10: register_user on an address not yet present returns Ok and adds an
\* account with balance 0, is_verified false and the given phone, every
\* other account unchanged; on an address already present it returns
\* Err("User already exists") and leaves the account map as it was.
C10_RegisterOnce ==
    \A a \in Address, p \in Phones :
        LET o == register_user_call(users, a, p)
        IN IF a \in Registered
           THEN /\ o.res = Err("User already exists")
                /\ o.users = users
           ELSE /\ o.res = Ok(Unit)
                /\ DOMAIN o.users = Registered \cup {a}
                /\ o.users[a] = [address |-> a, phone |-> p,
                                 is_verified |-> FALSE, balance |-> 0]
                /\ \A c \in Registered : o.users[c] = users[c]

\* C10 witness: an account registered with one phone has since been
\* verified and holds funds, and registering it again with the other phone
\* is refused.
C10_Witness ==
    \E a \in Registered :
        /\ users[a].phone = "555-0100"
        /\ users[a].is_verified
        /\ users[a].balance > 0
        /\ register_user_call(users, a, "555-0199").res = Err("User already exists")

(***************************************************************************)
(* Steps.  An invocation that returned Ok is a step that adds one to steps *)
(* at an unchanged timestamp, and op' names it.                            *)
(***************************************************************************)
Invoked(name) ==
    /\ steps' = steps + 1
    /\ now' = now
    /\ op'.name = name

RECURSIVE SumOf(_, _)
SumOf(f, S) ==
    IF S = {}
    THEN 0
    ELSE LET k == CHOOSE x \in S : TRUE
         IN f[k] + SumOf(f, S \ {k})

\* The sum of the amounts of the payments, and of the usdc amounts of the
\* withdrawals, that a map holds for an owner.
BillTotal(bs, a) ==
    SumOf([k \in DOMAIN bs |-> bs[k].amount],
          {k \in DOMAIN bs : bs[k].user_address = a})

WithdrawalTotal(ws, a) ==
    SumOf([k \in DOMAIN ws |-> ws[k].usdc_amount],
          {k \in DOMAIN ws : ws[k].user_address = a})

\* C11: the timestamp never moving back, every pay_bill that returns Ok
\* returns an id that was not a key of the payments map before the call, and
\* every withdraw that returns Ok an id that was not a key of the
\* withdrawals map.  (Stated as the claim states it; the source does not
\* keep it.)
C11_IdsAreFresh ==
    [][/\ Invoked("pay_bill") => op'.res.val \notin DOMAIN bills
       /\ Invoked("withdraw") => op'.res.val \notin DOMAIN withdrawals]_vars

\* C12: for every account the total debited by pay_bill calls that returned
\* Ok equals the sum of the amounts of the payments it owns, and likewise for
\* withdraw and usdc_amount.  Both are 0 at the start, so this is: every
\* step adds to the sum of the records of an account exactly what it debits
\* from that account for a request.  (Stated as the claim states it; the
\* source does not keep it.)
C12_DebitsMatchRecords ==
    [][\A a \in Address :
          /\ BillTotal(bills', a) - BillTotal(bills, a)
                = IF Invoked("pay_bill") /\ op'.args.user_address = a
                  THEN op'.args.amount
                  ELSE 0
          /\ WithdrawalTotal(withdrawals', a) - WithdrawalTotal(withdrawals, a)
                = IF Invoked("withdraw") /\ op'.args.user_address = a
                  THEN op'.args.usdc_amount
                  ELSE 0]_vars

\* C13: a request is created with status "pending", and the status stored
\* under an id that exists changes only in a step that is the status update
\* of that id.  (Stated as the claim states it; the source does not keep it.)
C13_StatusOnlyByUpdate ==
    [][/\ \A id \in DOMAIN bills' \ DOMAIN bills : bills'[id].status = "pending"
       /\ \A id \in DOMAIN withdrawals' \ DOMAIN withdrawals :
             withdrawals'[id].status = "pending"
       /\ \A id \in DOMAIN bills \cap DOMAIN bills' :
             bills'[id].status # bills[id].status =>
                (Invoked("update_bill_status") /\ op'.args.payment_id = id)
       /\ \A id \in DOMAIN withdrawals \cap DOMAIN withdrawals' :
             withdrawals'[id].status # withdrawals[id].status =>
                (Invoked("update_withdrawal_status") /\ op'.args.withdrawal_id = id)]_vars

\* C14: a request stored under an id is stored under it in every later
\* state, with every field but status as it was.  (Stated as the claim
\* states it; the source does not keep it.)
C14_RequestsAreKept ==
    [][/\ \A id \in DOMAIN bills :
             /\ id \in DOMAIN bills'
             /\ [bills'[id] EXCEPT !.status = bills[id].status] = bills[id]
       /\ \A id \in DOMAIN withdrawals :
             /\ id \in DOMAIN withdrawals'
             /\ [withdrawals'[id] EXCEPT !.status = withdrawals[id].status]
                   = withdrawals[id]]_vars

\* C15: for a registered U, withdraw(U, method, account_number, usdc_amount,
\* ugx_amount) returns Err("Insufficient balance") and stores nothing when
\* balance(U) < usdc_amount, and otherwise returns Ok with the id
\* "withdraw_" followed by the timestamp, takes exactly usdc_amount from U's
\* balance and stores under that id a record, status "pending", that holds
\* usdc_amount and ugx_amount as supplied; the outcome and the account map
\* stored are the same for every ugx_amount.
C15_WithdrawDebitsUsdc ==
    \A a \in Registered, me \in Methods, n \in AccountNumbers, m \in Amounts,
       g \in UgxAmounts :
        LET o == withdraw_call(users, withdrawals, now, a, me, n, m, g)
        IN /\ IF users[a].balance < m
              THEN /\ o.res = Err("Insufficient balance")
                   /\ o.users = users
                   /\ o.withdrawals = withdrawals
              ELSE /\ o.res = Ok("withdraw_" \o ToString(now))
                   /\ o.users = [users EXCEPT ![a].balance = @ - m]
                   /\ o.res.val \in DOMAIN o.withdrawals
                   /\ o.withdrawals[o.res.val].user_address = a
                   /\ o.withdrawals[o.res.val].method = me
                   /\ o.withdrawals[o.res.val].account_number = n
                   /\ o.withdrawals[o.res.val].usdc_amount = m
                   /\ o.withdrawals[o.res.val].ugx_amount = g
                   /\ o.withdrawals[o.res.val].status = "pending"
           /\ \A g2 \in UgxAmounts :
                 LET o2 == withdraw_call(users, withdrawals, now, a, me, n, m, g2)
                 IN o2.res = o.res /\ o2.users = o.users

\* C15 witness: a withdrawal of 1 with a ugx amount of 3700 has emptied an
\* account that held 1; its record holds both amounts, and a further
\* withdrawal of 1 with a ugx amount of 0 is refused for lack of balance.
C15_Witness ==
    /\ op.name = "withdraw"
    /\ op.args.usdc_amount = 1
    /\ op.args.ugx_amount = 3700
    /\ users[op.args.user_address].balance = 0
    /\ op.res.val \in DOMAIN withdrawals
    /\ withdrawals[op.res.val].usdc_amount = 1
    /\ withdrawals[op.res.val].ugx_amount = 3700
    /\ withdraw_call(users, withdrawals, now, op.args.user_address, "mobile_money",
                     "ACC123", 1, 0).res = Err("Insufficient balance")

\* C16: once the administrator slot holds an address, no step changes it,
\* a further init included.
C16_AdminNeverChanges ==
    [][admin # NoAdmin => admin' = admin]_vars

\* C16 witness: init has run again after the administrator of an earlier
\* init set a payment to "paid", and the slot holds the same address.
C16_Witness ==
    /\ op.name = "init"
    /\ admin = ContractAddress
    /\ \E id \in DOMAIN bills : bills[id].status = "paid"

\* C17: verify_user on a registered address returns Ok and stores the account
\* map with that account's is_verified true and nothing else changed (its
\* balance, its phone and every other account are as they were); verifying
\* again the map it stored stores the same map; and no entry point stores an
\* account map in which an account that was verified is missing or is no
\* longer verified.
C17_VerifyIdempotent ==
    /\ \A a \in Registered :
          LET o == verify_user_call(users, a)
              again == verify_user_call(o.users, a)
          IN /\ o.res = Ok(Unit)
             /\ o.users = [users EXCEPT ![a].is_verified = TRUE]
             /\ again.res = Ok(Unit)
             /\ again.users = o.users
    /\ LET Kept(us) == \A c \in Registered :
                          users[c].is_verified => (c \in DOMAIN us /\ us[c].is_verified)
       IN /\ \A a \in Address, p \in Phones :
                Kept(register_user_call(users, a, p).users)
          /\ \A a \in Address : Kept(verify_user_call(users, a).users)
          /\ \A a \in Address, m \in Amounts : Kept(deposit_call(users, a, m).users)
          /\ \A a \in Address, b \in Address, m \in Amounts :
                Kept(send_usdc_call(users, a, b, m).users)
          /\ \A a \in Address, bt \in BillTypes, n \in AccountNumbers, m \in Amounts :
                Kept(pay_bill_call(users, bills, now, a, bt, n, m).users)
          /\ \A a \in Address, me \in Methods, n \in AccountNumbers, m \in Amounts,
                g \in UgxAmounts :
                Kept(withdraw_call(users, withdrawals, now, a, me, n, m, g).users)

\* C17 witness: three invocations have returned Ok at timestamp 0, the last
\* a verify_user, and left one account, verified, with balance 0 and no
\* request: they are its registration and two verifications.
C17_Witness ==
    /\ op.name = "verify_user"
    /\ steps = 3
    /\ now = 0
    /\ Registered = {op.args.user_address}
    /\ users[op.args.user_address].is_verified
    /\ users[op.args.user_address].balance = 0
    /\ net[op.args.user_address] = 0
    /\ bills = EmptyMap
    /\ withdrawals = EmptyMap

\* C18: in every reachable state and for every address U, get_bill_payments(U)
\* returns the records of the payments map owned by U, each once and no
\* other, and get_withdrawals(U) the records of the withdrawals map owned by
\* U, each once and no other.  (Both entry points read storage and store
\* nothing: their actions leave every variable as it was.)
C18_ListsAreTheOwnersRecords ==
    \A a \in Address :
        LET bl == get_bill_payments_call(bills, a)
            wl == get_withdrawals_call(withdrawals, a)
        IN /\ \A i \in 1 .. Len(bl) :
                 /\ bl[i].user_address = a
                 /\ bl[i].id \in DOMAIN bills
                 /\ bills[bl[i].id] = bl[i]
           /\ \A k \in DOMAIN bills :
                 bills[k].user_address = a =>
                    Cardinality({i \in 1 .. Len(bl) : bl[i] = bills[k]}) = 1
           /\ \A i \in 1 .. Len(wl) :
                 /\ wl[i].user_address = a
                 /\ wl[i].id \in DOMAIN withdrawals
                 /\ withdrawals[wl[i].id] = wl[i]
           /\ \A k \in DOMAIN withdrawals :
                 withdrawals[k].user_address = a =>
                    Cardinality({i \in 1 .. Len(wl) : wl[i] = withdrawals[k]}) = 1

\* C18 witness: one account owns two payments and the other address none:
\* the list of the first holds two records, that of the second is empty.
C18_Witness ==
    \E a \in Address, b \in Address :
        /\ a # b
        /\ Cardinality(DOMAIN bills) = 2
        /\ Len(get_bill_payments_call(bills, a)) = 2
        /\ get_bill_payments_call(bills, a)[1] # get_bill_payments_call(bills, a)[2]
        /\ Len(get_bill_payments_call(bills, b)) = 0

\* C19: in every reachable state every stored payment has amount > 0 and
\* every stored withdrawal has usdc_amount > 0.  (Stated as the claim states
\* it; the source does not keep it.)
C19_StoredAmountsPositive ==
    /\ \A id \in DOMAIN bills : bills[id].amount > 0
    /\ \A id \in DOMAIN withdrawals : withdrawals[id].usdc_amount > 0

\* C20: a step that is an update_bill_status(id, s) returning Ok changes the
\* status stored under id to s and nothing else: every other field of that
\* payment, every other payment, the account map (so every balance), the
\* withdrawals map and the administrator are as they were.  The same holds of
\* update_withdrawal_status on the withdrawals map.  A pay_bill step leaves
\* the withdrawals map as it was, and a withdraw step the payments map.
C20_UpdateChangesStatusOnly ==
    [][/\ Invoked("update_bill_status") =>
             /\ op'.args.payment_id \in DOMAIN bills
             /\ bills' = [bills EXCEPT ![op'.args.payment_id].status = op'.args.status]
             /\ UNCHANGED <<users, withdrawals, admin>>
       /\ Invoked("update_withdrawal_status") =>
             /\ op'.args.withdrawal_id \in DOMAIN withdrawals
             /\ withdrawals' = [withdrawals EXCEPT
                                   ![op'.args.withdrawal_id].status = op'.args.status]
             /\ UNCHANGED <<users, bills, admin>>
       /\ Invoked("pay_bill") => UNCHANGED <<withdrawals, admin>>
       /\ Invoked("withdraw") => UNCHANGED <<bills, admin>>]_vars

\* C20 witness: a payment has been set to "paid" while a withdrawal is
\* stored; the payment holds the amount it was created with, which is not 0,
\* and its owner's balance is what deposits, transfers and debits make it.
C20_Witness ==
    /\ op.name = "update_bill_status"
    /\ op.args.status = "paid"
    /\ bills[op.args.payment_id].status = "paid"
    /\ bills[op.args.payment_id].amount # 0
    /\ withdrawals # EmptyMap
    /\ users[bills[op.args.payment_id].user_address].balance
          = net[bills[op.args.payment_id].user_address]

====
